---- MODULE Spec2Model ----
(***************************************************************************)
(* Model of algebraic_value_editing/optimize.py: the corpus builder        *)
(* (corpus_to_token_batches), the aligned token dataset                    *)
(* (AlignedTokensDataset) and the steering vector trainer                  *)
(* (learn_activation_addition); and of algebraic_value_editing/metrics.py: *)
(* the word count metric and add_metric_cols.                              *)
(*                                                                         *)
(* Tensors are sequences: a [batch, pos] tensor is a sequence of rows,     *)
(* each row a sequence of integers.  Token ids are integers.  Python's     *)
(* 0-based index i is TLA+'s index i + 1.                                  *)
(***************************************************************************)
EXTENDS Integers, Sequences, FiniteSets, TLC

\* ------------------------------------------------------------------ bounds
MaxRows == 3
MaxTextLen == 2
MaxCtx == 3
MaxStride == 3

\* ------------------------------------------------------------ generic helpers
RECURSIVE SumSeq(_)
SumSeq(s) == IF s = <<>> THEN 0 ELSE Head(s) + SumSeq(Tail(s))

RECURSIVE Flatten(_)
\* t.concat(list, dim=0) of a non-empty list of [n_i, pos] tensors
Flatten(ss) == IF ss = <<>> THEN <<>> ELSE Head(ss) \o Flatten(Tail(ss))

Labels == {"A", "B"}
\* pandas groupby sorts the group keys
LabelOrder == <<"A", "B">>

\* ------------------------------------------------------------------ state
VARIABLES
    \* corpus_to_token_batches
    texts,            \* the DataFrame: sequence of rows [text, label]
    context_len,      \* window length
    stride,           \* window stride
    c_pc,             \* "start" | "loop" | "returned" | "raised"
    c_todo,           \* labels of grouped_texts still to iterate
    tokens_by_label,  \* the dict being built: sequence of [label, snippets]
    \* AlignedTokensDataset
    ds_args,          \* constructor arguments [tokens_by_label, aligned_labels,
                      \*   opposed_labels, model, batch_size]
    ds_pc,            \* "idle" | "labels" | "cache" | "baseline" | "done" | "raised"
    tokens_list,      \* line 77
    aligned_list,     \* line 78
    ds_tokens,        \* self.tokens
    ds_aligned,       \* self.aligned
    start_idx,        \* line 100
    normal_losses_list, \* line 99
    normal_loss,      \* self.normal_loss: [isNone, rows]
    ds_item,          \* the last __getitem__ result, as a sequence of <<key, value>>
    \* torch / model state shared by the dataset and the trainer
    grad_enabled,     \* torch's gradient mode (t.no_grad switches it off)
    hook_registered,  \* the injection hook is among the model's forward hooks
    steering_vector,  \* [created, value, requires_grad]
    \* one batch of the training loop, lines 233-256
    l_batch,          \* [loss_per_token, normal_loss, aligned]
    l_args,           \* [neutral_loss_method, neutral_loss_beta]
    l_loss,           \* loss as the fraction [num, den]; den = 0 before line 238
    l_pc,             \* "idle" | "batch" | "done"
    \* learn_activation_addition
    tr_args,          \* the call's arguments
    pc,               \* position in learn_activation_addition
    call_no,          \* 1 for the first call of the process, 2 for the second
    rng_global,       \* state of torch's default random generator
    generator,        \* the DataLoader's generator: [created, state]
    opt_steps,        \* optimizer steps taken
    run_state,        \* the wandb run: "none" | "running" | "finished"
    dir_exists,       \* the directory run_name exists
    epoch,            \* line 229
    batches,          \* batches of the epoch still to come (dataset indices)
    grad,             \* steering_vector.grad (numerator)
    files,            \* checkpoint files in the directory: [epoch, value]
    saved,            \* epochs of the files registered with wandb.save
    raised_at,        \* the step whose exception left the call, "" if none
    effects,          \* side effects the current call has had
    hist,             \* per call: the initial vector and every step's
                      \*   <<batch, vector>>
    result,           \* per call: the returned vector [returned, value]
    \* add_metric_cols
    data_arg,         \* the caller's DataFrame: sequence of rows, a row a
                      \*   function from column name to value
    data,             \* the local name data (line 40 rebinds it)
    metrics_todo,     \* items of metrics_dict still to iterate
    cols_to_use,      \* the columns concatenated into the metric input
    metric_df,        \* the last metric table: sequence of [index, cols]
    m_pc              \* "idle" | "called" | "loop" | "returned" | "raised"

corpusVars == <<texts, context_len, stride, c_pc, c_todo, tokens_by_label>>

dsVars == <<ds_args, ds_pc, tokens_list, aligned_list, ds_tokens, ds_aligned,
            start_idx, normal_losses_list, normal_loss, ds_item>>

torchVars == <<grad_enabled, hook_registered, steering_vector>>

lossVars == <<l_batch, l_args, l_loss, l_pc>>

trainVars == <<tr_args, pc, call_no, rng_global, generator, opt_steps,
               run_state, dir_exists, epoch, batches, grad, files, saved,
               raised_at, effects, hist, result>>

metricVars == <<data_arg, data, metrics_todo, cols_to_use, metric_df, m_pc>>

vars == <<corpusVars, dsVars, torchVars, lossVars, trainVars, metricVars>>

notCorpus == <<dsVars, torchVars, lossVars, trainVars, metricVars>>

notDataset == <<corpusVars, torchVars, lossVars, trainVars, metricVars>>

notDatasetTorch == <<corpusVars, lossVars, trainVars, metricVars>>

notLoss == <<corpusVars, dsVars, torchVars, trainVars, metricVars>>

notMetrics == <<corpusVars, dsVars, torchVars, lossVars, trainVars>>

\* ------------------------------------------------- values before any call
NoneLoss == [isNone |-> TRUE, rows |-> <<>>]

NoVector == [created |-> FALSE, value |-> 0, requires_grad |-> FALSE]

NoArgs == [tokens_by_label |-> <<>>, aligned_labels |-> {},
           opposed_labels |-> [isNone |-> TRUE, labels |-> {}],
           model |-> FALSE, batch_size |-> 1]

IdleCorpus ==
    /\ texts = <<>>
    /\ context_len = 1
    /\ stride = 1
    /\ c_pc = "idle"
    /\ c_todo = <<>>
    /\ tokens_by_label = <<>>

IdleDataset ==
    /\ ds_args = NoArgs
    /\ ds_pc = "idle"
    /\ tokens_list = <<>>
    /\ aligned_list = <<>>
    /\ ds_tokens = <<>>
    /\ ds_aligned = <<>>
    /\ start_idx = 0
    /\ normal_losses_list = <<>>
    /\ normal_loss = NoneLoss
    /\ ds_item = <<>>

NoLoss == [num |-> 0, den |-> 0]

IdleLoss ==
    /\ l_batch = [loss_per_token |-> <<>>, normal_loss |-> <<>>, aligned |-> <<>>]
    /\ l_args = [neutral_loss_method |-> "abs_of_mean", neutral_loss_beta |-> 1]
    /\ l_loss = NoLoss
    /\ l_pc = "idle"

NoGenerator == [created |-> FALSE, state |-> 0]

NoResult == [returned |-> FALSE, value |-> 0]

NoTrainArgs ==
    [neutral_loss_method |-> "abs_of_mean", neutral_loss_beta |-> 1,
     num_epochs |-> 0, batch_size |-> 1, seed |-> 0, use_wandb |-> FALSE,
     tokens_by_label |-> <<>>, aligned_labels |-> {},
     opposed_labels |-> [isNone |-> TRUE, labels |-> {}]]

\* the per-call state of learn_activation_addition before the call
FreshCall ==
    /\ generator = NoGenerator
    /\ opt_steps = 0
    /\ run_state = "none"
    /\ dir_exists = FALSE
    /\ epoch = 0
    /\ batches = <<>>
    /\ grad = 0
    /\ files = <<>>
    /\ saved = <<>>
    /\ raised_at = ""
    /\ effects = {}

IdleTrain ==
    /\ tr_args = NoTrainArgs
    /\ pc = "idle"
    /\ call_no = 1
    /\ rng_global = 0
    /\ FreshCall
    /\ hist = <<<<>>, <<>>>>
    /\ result = <<NoResult, NoResult>>

IdleTorch ==
    /\ grad_enabled = TRUE
    /\ hook_registered = FALSE
    /\ steering_vector = NoVector

IdleMetrics ==
    /\ data_arg = <<>>
    /\ data = <<>>
    /\ metrics_todo = <<>>
    /\ cols_to_use = <<>>
    /\ metric_df = <<>>
    /\ m_pc = "idle"

\* ------------------------------------------------- corpus_to_token_batches
\* The tokenizer's end-of-sequence token; GPT-2 uses the same id to begin a
\* sequence, which to_tokens prepends.
EosToken == 0

\* The text of row r holding n tokens: ids distinct over rows and positions,
\* so that a window is identified by its content.
RowText(r, n) == [k \in 1..n |-> 10 * r + k]

\* eos_token.join(list of texts)
RECURSIVE EosJoin(_)
EosJoin(ts) ==
    IF ts = <<>> THEN <<>>
    ELSE IF Len(ts) = 1 THEN Head(ts)
    ELSE Head(ts) \o <<EosToken>> \o EosJoin(Tail(ts))

\* texts of the rows with this label, in row order
RECURSIVE TextsOf(_, _)
TextsOf(rows, label) ==
    IF rows = <<>> THEN <<>>
    ELSE IF Head(rows).label = label
         THEN <<Head(rows).text>> \o TextsOf(Tail(rows), label)
         ELSE TextsOf(Tail(rows), label)

\* texts.groupby(label_col).agg({"text": eos.join})["text"]: the labels that
\* have a row, sorted
RECURSIVE GroupedLabels(_, _)
GroupedLabels(rows, order) ==
    IF order = <<>> THEN <<>>
    ELSE IF \E i \in 1..Len(rows) : rows[i].label = Head(order)
         THEN <<Head(order)>> \o GroupedLabels(rows, Tail(order))
         ELSE GroupedLabels(rows, Tail(order))

GroupedText(rows, label) == EosJoin(TextsOf(rows, label))

\* model.to_tokens(text): [1, N] tensor, BOS prepended; its row 0
ToTokens(text) == <<EosToken>> \o text

\* t.arange(start, end, step) for step > 0 raises when end < start
ArangeRaises(start, end, step) == end < start

RECURSIVE ArangeInclusive(_, _, _)
ArangeInclusive(start, end, step) ==
    IF start > end THEN <<>>
    ELSE <<start>> \o ArangeInclusive(start + step, end, step)

\* t.arange(start, end, step), step > 0, end >= start: start, start+step, ... < end
RECURSIVE Arange(_, _, _)
Arange(start, end, step) ==
    IF start >= end THEN <<>>
    ELSE <<start>> \o Arange(start + step, end, step)

\* inds = arange(context_len)[None, :] + arange(0, N - context_len, stride)[:, None]
IndsWrong(ntokens, L, S) ==
    LET offs == Arange(0, ntokens - L, S)
    IN [i \in 1..Len(offs) |-> [k \in 1..L |-> (i - 1) + (k - 1)]]

Inds(ntokens, L, S) ==
    LET offs == Arange(0, ntokens - L, S)
    IN [i \in 1..Len(offs) |-> [k \in 1..L |-> offs[i] + (k - 1)]]

\* tokens[0, :][inds]
Gather(tokens, inds) ==
    [i \in 1..Len(inds) |-> [k \in 1..Len(inds[i]) |-> tokens[inds[i][k] + 1]]]

TokenSnippets(tokens, L, S) == Gather(tokens, Inds(Len(tokens), L, S))

InitCorpus ==
    /\ \E n \in 1..MaxRows :
         \E lab \in [1..n -> Labels], len \in [1..n -> 0..MaxTextLen] :
            texts = [r \in 1..n |-> [text |-> RowText(r, len[r]), label |-> lab[r]]]
    /\ context_len \in 1..MaxCtx
    /\ stride \in 1..MaxStride
    /\ c_pc = "start"
    /\ c_todo = <<>>
    /\ tokens_by_label = <<>>

\* lines 43-48
GroupTexts ==
    /\ c_pc = "start"
    /\ c_todo' = GroupedLabels(texts, LabelOrder)
    /\ tokens_by_label' = <<>>
    /\ c_pc' = "loop"
    /\ UNCHANGED <<texts, context_len, stride>>
    /\ UNCHANGED notCorpus

\* lines 49-56, one iteration; the arange of line 53 raises out of the call
WindowLabel ==
    /\ c_pc = "loop"
    /\ c_todo # <<>>
    /\ LET label == Head(c_todo)
           tokens == ToTokens(GroupedText(texts, label))
       IN IF ArangeRaises(0, Len(tokens) - context_len, stride)
          THEN /\ c_pc' = "raised"
               /\ UNCHANGED <<c_todo, tokens_by_label>>
          ELSE /\ tokens_by_label' = Append(tokens_by_label,
                     [label |-> label,
                      snippets |-> TokenSnippets(tokens, context_len, stride)])
               /\ c_todo' = Tail(c_todo)
               /\ c_pc' = "loop"
    /\ UNCHANGED <<texts, context_len, stride>>
    /\ UNCHANGED notCorpus

\* line 58
ReturnCorpus ==
    /\ c_pc = "loop"
    /\ c_todo = <<>>
    /\ c_pc' = "returned"
    /\ UNCHANGED <<texts, context_len, stride, c_todo, tokens_by_label>>
    /\ UNCHANGED notCorpus

NextCorpus == GroupTexts \/ WindowLabel \/ ReturnCorpus

CorpusInit ==
    InitCorpus /\ IdleDataset /\ IdleTorch /\ IdleLoss /\ IdleTrain /\ IdleMetrics

SpecCorpus == CorpusInit /\ [][NextCorpus]_vars

\* ------------------------------------------------------- corpus properties
\* the token sequence of a label: what line 50 computes for it
LabelTokens(label) == ToTokens(GroupedText(texts, label))

\* the entry of the returned dict for a label, <<>> if none
EntriesOf(label) ==
    SelectSeq(tokens_by_label, LAMBDA e : e.label = label)

\* the window count the specification states for N tokens
WindowCount(N, L, S) == IF N >= L THEN ((N - L) \div S) + 1 ELSE 0

\* C2: every label whose text tokenizes to N tokens gets exactly
\* floor((N-L)/S) + 1 snippets if N >= L and 0 otherwise (one window for
\* every offset 0, S, 2S, ... with offset + L <= N).
C2_SnippetCount ==
    \A i \in 1..Len(tokens_by_label) :
        Len(tokens_by_label[i].snippets) =
            WindowCount(Len(LabelTokens(tokens_by_label[i].label)),
                        context_len, stride)

\* the start offsets whose window lies strictly before the last token
StrictOffsets(N, L, S) == {o \in 0..N : o % S = 0 /\ o + L < N}

\* C2 (amended): a label gets an entry only if N >= L (for N < L line 53
\* raises), and then it gets one snippet for every offset 0, S, 2S, ... with
\* offset + L < N, that is ceil((N-L)/S) snippets: the window that ends
\* exactly at token N is not produced, and N = L gives none.
C2_SnippetCountStrict ==
    /\ \A i \in 1..Len(tokens_by_label) :
          LET N == Len(LabelTokens(tokens_by_label[i].label))
              n == Len(tokens_by_label[i].snippets)
          IN /\ N >= context_len
             /\ n = Cardinality(StrictOffsets(N, context_len, stride))
             /\ n = (N - context_len + stride - 1) \div stride
    /\ c_pc = "raised" =>
          /\ c_todo # <<>>
          /\ Len(LabelTokens(Head(c_todo))) < context_len
    /\ c_pc = "returned" =>
          \A i \in 1..Len(texts) : Len(EntriesOf(texts[i].label)) = 1

\* a returned label whose last full window ends exactly at its last token
C2_Witness ==
    /\ c_pc = "returned"
    /\ \E i \in 1..Len(tokens_by_label) :
          LET N == Len(LabelTokens(tokens_by_label[i].label))
          IN /\ N > context_len
             /\ (N - context_len) % stride = 0
             /\ Len(tokens_by_label[i].snippets) = (N - context_len) \div stride
             /\ stride > 1

Degenerate(label) == Len(LabelTokens(label)) <= context_len

\* C4: a label whose token count is <= context_len is non-fatal: the call
\* does not raise, the label gets an entry holding zero snippets, and the
\* other labels get their snippets as usual.
C4_DegenerateNonFatal ==
    (\E i \in 1..Len(texts) : Degenerate(texts[i].label)) =>
        /\ c_pc # "raised"
        /\ c_pc = "returned" =>
              \A i \in 1..Len(texts) :
                 LET label == texts[i].label
                     es == EntriesOf(label)
                 IN /\ Len(es) = 1
                    /\ Degenerate(label) => es[1].snippets = <<>>
                    /\ ~Degenerate(label) =>
                          es[1].snippets =
                             TokenSnippets(LabelTokens(label), context_len, stride)

\* C10: every produced snippet i (0-based) of a label is the contiguous
\* window [i*S, i*S+L) of the label's token sequence, has length L, and
\* consecutive snippets share L - S tokens when S < L.
C10_ContiguousWindows ==
    \A e \in 1..Len(tokens_by_label) :
        LET tokens == LabelTokens(tokens_by_label[e].label)
            snips == tokens_by_label[e].snippets
        IN /\ \A j \in 1..Len(snips) :
                 /\ Len(snips[j]) = context_len
                 /\ (j - 1) * stride + context_len <= Len(tokens)
                 /\ snips[j] = SubSeq(tokens, (j - 1) * stride + 1,
                                      (j - 1) * stride + context_len)
           /\ stride < context_len =>
                 \A j \in 1..(Len(snips) - 1) :
                    SubSeq(snips[j], stride + 1, context_len) =
                       SubSeq(snips[j + 1], 1, context_len - stride)

C10_Witness ==
    /\ c_pc = "returned"
    /\ 1 < stride
    /\ stride < context_len
    /\ \E e \in 1..Len(tokens_by_label) : Len(tokens_by_label[e].snippets) >= 2

\* ===================================================== AlignedTokensDataset
MaxSnip == 2
MaxBaselineBatch == 2

\* snippet j of the label numbered li: ids distinct over labels, snippets
\* and positions
Snip(li, j, L) == [k \in 1..L |-> 100 * li + 10 * j + k]

LabelNo(label) == CHOOSE i \in 1..Len(LabelOrder) : LabelOrder[i] = label

\* sequences of distinct labels: the key orders a dict can have
LabelSeqs ==
    {<<>>} \cup {<<a>> : a \in Labels}
           \cup {<<a, b>> : <<a, b>> \in {p \in Labels \X Labels : p[1] # p[2]}}

\* lines 81-86, with the two membership tests swapped
AlignedValOpposedFirst(label, aligned_labels, opposed_labels) ==
    IF ~opposed_labels.isNone /\ label \in opposed_labels.labels THEN -1
    ELSE IF label \in aligned_labels THEN 1
    ELSE 0

\* lines 81-86
AlignedVal(label, aligned_labels, opposed_labels) ==
    IF label \in aligned_labels THEN 1
    ELSE IF ~opposed_labels.isNone /\ label \in opposed_labels.labels THEN -1
    ELSE 0

\* t.full_like(tokens[:, 0], aligned_val, dtype=int), line 88
FullLike(tokens, val) == [i \in 1..Len(tokens) |-> val]

\* t.concat of an empty list raises
ConcatRaises(list) == list = <<>>

\* The network is an external collaborator: its per-token loss is some
\* deterministic function of the tokens.  The loss at position k scores the
\* prediction of token k+1, so a row of pos tokens has pos - 1 losses.
TokenLoss(a, b) == ((a + 2 * b) % 3) + 1

\* model(tokens, return_type="loss", loss_per_token=True) on one row; the
\* registered hook adds delta to the activation, which shifts every loss
LossPerTokenRow(row, delta) ==
    [k \in 1..(Len(row) - 1) |-> TokenLoss(row[k], row[k + 1]) + delta]

\* the activation offset the forward hooks apply: hook_fn, lines 208-211
HookDelta == IF hook_registered THEN steering_vector.value ELSE 0

\* model(tokens_batch, return_type="loss", loss_per_token=True)
ModelLoss(tokens_batch) ==
    [i \in 1..Len(tokens_batch) |-> LossPerTokenRow(tokens_batch[i], HookDelta)]

\* a slice that yields nothing when the batch is not full
SliceDropPartial(rows, start, stop) ==
    IF stop <= Len(rows) THEN SubSeq(rows, start + 1, stop) ELSE <<>>

\* tensor[start : stop] with 0-based start, stop clipped to the length
Slice(rows, start, stop) ==
    SubSeq(rows, start + 1, IF stop < Len(rows) THEN stop ELSE Len(rows))

InitDataset ==
    /\ \E ls \in LabelSeqs, L \in 1..MaxCtx :
         \E cnt \in [1..Len(ls) -> 0..MaxSnip],
            al \in SUBSET Labels,
            op \in {[isNone |-> TRUE, labels |-> {}]}
                     \cup {[isNone |-> FALSE, labels |-> o] : o \in SUBSET Labels},
            m \in BOOLEAN, bs \in 1..MaxBaselineBatch :
            ds_args = [tokens_by_label |->
                          [i \in 1..Len(ls) |->
                              [label |-> ls[i],
                               snippets |-> [j \in 1..cnt[i] |->
                                               Snip(LabelNo(ls[i]), j, L)]]],
                       aligned_labels |-> al,
                       opposed_labels |-> op,
                       model |-> m,
                       batch_size |-> bs]
    /\ ds_pc = "labels"
    /\ tokens_list = <<>>
    /\ aligned_list = <<>>
    /\ ds_tokens = <<>>
    /\ ds_aligned = <<>>
    /\ start_idx = 0
    /\ normal_losses_list = <<>>
    /\ normal_loss = NoneLoss
    /\ ds_item = <<>>

\* lines 79-89, one iteration over tokens_by_label.items()
DsAddLabel ==
    /\ ds_pc = "labels"
    /\ Len(tokens_list) < Len(ds_args.tokens_by_label)
    /\ LET e == ds_args.tokens_by_label[Len(tokens_list) + 1]
           aligned_val == AlignedVal(e.label, ds_args.aligned_labels,
                                     ds_args.opposed_labels)
       IN /\ tokens_list' = Append(tokens_list, e.snippets)
          /\ aligned_list' = Append(aligned_list, FullLike(e.snippets, aligned_val))
    /\ UNCHANGED <<ds_args, ds_pc, ds_tokens, ds_aligned, start_idx,
                   normal_losses_list, normal_loss, ds_item>>
    /\ UNCHANGED notDataset

\* lines 90-94; t.concat raises on an empty list
DsConcat ==
    /\ ds_pc = "labels"
    /\ Len(tokens_list) = Len(ds_args.tokens_by_label)
    /\ IF ConcatRaises(tokens_list)
       THEN /\ ds_pc' = "raised"
            /\ UNCHANGED <<ds_tokens, ds_aligned>>
       ELSE /\ ds_tokens' = Flatten(tokens_list)
            /\ ds_aligned' = Flatten(aligned_list)
            /\ ds_pc' = IF Len(Flatten(tokens_list)) = Len(Flatten(aligned_list))
                        THEN "cache" ELSE "raised"
    /\ UNCHANGED <<ds_args, tokens_list, aligned_list, start_idx,
                   normal_losses_list, normal_loss, ds_item>>
    /\ UNCHANGED notDataset

\* a no_grad block that leaves gradient tracking off behind it
NoGradExitLeaks(entered_with) == FALSE

\* the end of "with t.no_grad()", line 98: the gradient mode in force when
\* the block was entered is restored.  Nothing in the repository switches
\* the mode off, so the block is entered with tracking on.
NoGradExit(entered_with) == entered_with

\* lines 97-99: with a model, enter t.no_grad()
DsEnterNoGrad ==
    /\ ds_pc = "cache"
    /\ ds_args.model
    /\ grad_enabled' = FALSE
    /\ normal_losses_list' = <<>>
    /\ start_idx' = 0
    /\ ds_pc' = "baseline"
    /\ UNCHANGED <<ds_args, tokens_list, aligned_list, ds_tokens, ds_aligned,
                   normal_loss, ds_item>>
    /\ UNCHANGED <<hook_registered, steering_vector>>
    /\ UNCHANGED notDatasetTorch

\* lines 116-117: without a model
DsNoModel ==
    /\ ds_pc = "cache"
    /\ ~ds_args.model
    /\ normal_loss' = NoneLoss
    /\ ds_pc' = "done"
    /\ UNCHANGED <<ds_args, tokens_list, aligned_list, ds_tokens, ds_aligned,
                   start_idx, normal_losses_list, ds_item>>
    /\ UNCHANGED notDataset

\* lines 100-111, one iteration of range(0, n, batch_size)
DsBaselineBatch ==
    /\ ds_pc = "baseline"
    /\ start_idx < Len(ds_tokens)
    /\ LET tokens_batch == Slice(ds_tokens, start_idx,
                                 start_idx + ds_args.batch_size)
       IN normal_losses_list' = Append(normal_losses_list, ModelLoss(tokens_batch))
    /\ start_idx' = start_idx + ds_args.batch_size
    /\ UNCHANGED <<ds_args, ds_pc, tokens_list, aligned_list, ds_tokens,
                   ds_aligned, normal_loss, ds_item>>
    /\ UNCHANGED notDataset

\* lines 112-115, then the no_grad block ends (also when line 112 raises)
DsBaselineDone ==
    /\ ds_pc = "baseline"
    /\ start_idx >= Len(ds_tokens)
    /\ IF ConcatRaises(normal_losses_list)
       THEN /\ ds_pc' = "raised"
            /\ UNCHANGED normal_loss
       ELSE /\ normal_loss' = [isNone |-> FALSE,
                               rows |-> Flatten(normal_losses_list)]
            /\ ds_pc' = IF Len(ds_tokens) = Len(Flatten(normal_losses_list))
                        THEN "done" ELSE "raised"
    /\ grad_enabled' = NoGradExit(TRUE)
    /\ UNCHANGED <<ds_args, tokens_list, aligned_list, ds_tokens, ds_aligned,
                   start_idx, normal_losses_list, ds_item>>
    /\ UNCHANGED <<hook_registered, steering_vector>>
    /\ UNCHANGED notDatasetTorch

\* __len__, lines 119-121
DsLen == Len(ds_tokens)

\* __getitem__(idx), lines 123-131: the dict as a sequence of <<key, value>>
GetItem(idx) ==
    <<  <<"tokens", ds_tokens[idx + 1]>>, <<"aligned", ds_aligned[idx + 1]>> >>
    \o (IF ~normal_loss.isNone
        THEN << <<"normal_loss", normal_loss.rows[idx + 1]>> >>
        ELSE <<>>)

\* value of a key of an item, <<>> if the key is missing
ItemKeys(item) == {item[i][1] : i \in 1..Len(item)}

ItemGet(item, key) == item[CHOOSE i \in 1..Len(item) : item[i][1] = key][2]

DsGetItem ==
    /\ ds_pc = "done"
    /\ \E idx \in 0..(DsLen - 1) : ds_item' = GetItem(idx)
    /\ UNCHANGED <<ds_args, ds_pc, tokens_list, aligned_list, ds_tokens,
                   ds_aligned, start_idx, normal_losses_list, normal_loss>>
    /\ UNCHANGED notDataset

NextDataset ==
    \/ DsAddLabel
    \/ DsConcat
    \/ DsEnterNoGrad
    \/ DsNoModel
    \/ DsBaselineBatch
    \/ DsBaselineDone
    \/ DsGetItem

DatasetInit ==
    InitDataset /\ IdleCorpus /\ IdleTorch /\ IdleLoss /\ IdleTrain /\ IdleMetrics

SpecDataset == DatasetInit /\ [][NextDataset]_vars

\* ------------------------------------------------------ dataset properties
\* number of snippets of the blocks before block b of the mapping
RECURSIVE BlockOffset(_, _)
BlockOffset(tbl, b) ==
    IF b <= 1 THEN 0
    ELSE BlockOffset(tbl, b - 1) + Len(tbl[b - 1].snippets)

DsBuilt == ds_pc \in {"cache", "baseline", "done"}

\* C6: every snippet carries exactly one tag of {+1, -1, 0} decided by its
\* label alone (+1 if in aligned_labels, else -1 if opposed_labels is given
\* and holds it, else 0; in both: +1); tags and tokens have the same length;
\* snippets are stored one block per label in the mapping's order, each
\* block in its own order, and tag i belongs to snippet i.
C6_Tagging ==
    DsBuilt =>
        LET tbl == ds_args.tokens_by_label
            al == ds_args.aligned_labels
            op == ds_args.opposed_labels
        IN /\ Len(ds_aligned) = Len(ds_tokens)
           /\ Len(ds_tokens) = BlockOffset(tbl, Len(tbl) + 1)
           /\ \A i \in 1..Len(ds_aligned) : ds_aligned[i] \in {1, -1, 0}
           /\ \A b \in 1..Len(tbl) :
                \A j \in 1..Len(tbl[b].snippets) :
                   LET p == BlockOffset(tbl, b) + j
                       label == tbl[b].label
                       inOpposed == ~op.isNone /\ label \in op.labels
                   IN /\ ds_tokens[p] = tbl[b].snippets[j]
                      /\ (ds_aligned[p] = 1) <=> (label \in al)
                      /\ (ds_aligned[p] = -1) <=> (label \notin al /\ inOpposed)
                      /\ (ds_aligned[p] = 0) <=> (label \notin al /\ ~inOpposed)

\* two non-empty blocks, the first label listed as aligned and as opposed
C6_Witness ==
    /\ ds_pc = "done"
    /\ Len(ds_args.tokens_by_label) = 2
    /\ \A b \in 1..2 : Len(ds_args.tokens_by_label[b].snippets) = 2
    /\ ds_args.tokens_by_label[1].label = "B"
    /\ "B" \in ds_args.aligned_labels
    /\ ~ds_args.opposed_labels.isNone
    /\ ds_args.opposed_labels.labels = {"A", "B"}
    /\ ds_aligned = <<1, 1, -1, -1>>

\* C5: with a model, after construction the cached baseline loss has one row
\* per snippet and every row is as long as its token snippet (context_len),
\* for every snippet count and batch_size; without a model no entry has a
\* baseline loss.
C5_BaselineShape ==
    ds_pc = "done" =>
        IF ds_args.model
        THEN /\ ~normal_loss.isNone
             /\ Len(normal_loss.rows) = Len(ds_tokens)
             /\ \A i \in 1..Len(ds_tokens) :
                   Len(normal_loss.rows[i]) = Len(ds_tokens[i])
        ELSE /\ normal_loss.isNone
             /\ \A idx \in 0..(DsLen - 1) :
                   "normal_loss" \notin ItemKeys(GetItem(idx))

\* C5 (amended): with a model, a construction that completes has cached one
\* baseline row per snippet, each of length context_len - 1 (one loss per
\* predicted token), for every batch_size; it completes whenever there is at
\* least one snippet (with none, line 112 raises).  Without a model no entry
\* has a baseline loss.  An item carries its own row.
C5_BaselineShapeNextToken ==
    /\ ds_pc = "done" =>
          IF ds_args.model
          THEN /\ ~normal_loss.isNone
               /\ Len(normal_loss.rows) = Len(ds_tokens)
               /\ \A i \in 1..Len(ds_tokens) :
                     Len(normal_loss.rows[i]) = Len(ds_tokens[i]) - 1
          ELSE /\ normal_loss.isNone
               /\ \A idx \in 0..(DsLen - 1) :
                     "normal_loss" \notin ItemKeys(GetItem(idx))
    /\ (ds_pc = "raised" /\ tokens_list # <<>>) =>
          (ds_args.model /\ Flatten(tokens_list) = <<>>)
    /\ (ds_pc = "done" /\ ds_item # <<>> /\ ds_args.model) =>
          \E i \in 1..Len(ds_tokens) :
             /\ ItemGet(ds_item, "tokens") = ds_tokens[i]
             /\ ItemGet(ds_item, "normal_loss") = normal_loss.rows[i]

\* three snippets cached in batches of two, and an item read
C5_Witness ==
    /\ ds_pc = "done"
    /\ ds_args.model
    /\ ds_args.batch_size = 2
    /\ Len(ds_tokens) = 3
    /\ Len(normal_loss.rows) = 3
    /\ Len(ds_tokens[1]) = 3
    /\ ds_item # <<>>

\* ========================================= the batch loss, lines 238-256
MaxLossRows == 3
LossWidths == {0, 1, 2}
\* beta is a float in the code; whole values suffice to tell the terms apart
Betas == {0, 1, 2}
Methods == {"abs_of_mean", "mean_of_abs"}

Abs(x) == IF x < 0 THEN -x ELSE x

\* a - b, element-wise, line 238
MatSub(a, b) == [i \in 1..Len(a) |-> [k \in 1..Len(a[i]) |-> a[i][k] - b[i][k]]]

\* t.abs(m)
MatAbs(m) == [i \in 1..Len(m) |-> [k \in 1..Len(m[i]) |-> Abs(m[i][k])]]

\* m.sum()
MatSum(m) == SumSeq([i \in 1..Len(m) |-> SumSeq(m[i])])

\* m.numel()
Numel(m) == SumSeq([i \in 1..Len(m) |-> Len(m[i])])

\* m[aligned == val, :]: the rows whose tag is val, in order
RECURSIVE MaskRows(_, _, _)
MaskRows(m, aligned, val) ==
    IF m = <<>> THEN <<>>
    ELSE (IF Head(aligned) = val THEN <<Head(m)>> ELSE <<>>)
         \o MaskRows(Tail(m), Tail(aligned), val)

\* lines 240-254 with the opposed term added instead of subtracted
LossSumOpposedAdded(relative_loss, aligned, method, beta) ==
    MatSum(MaskRows(relative_loss, aligned, 1))
    + MatSum(MaskRows(relative_loss, aligned, -1))
    + (IF method = "abs_of_mean"
       THEN beta * Abs(MatSum(MaskRows(relative_loss, aligned, 0)))
       ELSE beta * MatSum(MatAbs(MaskRows(relative_loss, aligned, 0))))

\* lines 240-254: the loss before it is normalized
LossSum(relative_loss, aligned, method, beta) ==
    MatSum(MaskRows(relative_loss, aligned, 1))
    + (-MatSum(MaskRows(relative_loss, aligned, -1)))
    + (IF method = "abs_of_mean"
       THEN beta * Abs(MatSum(MaskRows(relative_loss, aligned, 0)))
       ELSE beta * MatSum(MatAbs(MaskRows(relative_loss, aligned, 0))))

\* lines 238-256: loss as a fraction, numerator over relative_loss.numel()
BatchLoss(loss_per_token, normal_loss_rows, aligned, method, beta) ==
    LET relative_loss == MatSub(loss_per_token, normal_loss_rows)
    IN [num |-> LossSum(relative_loss, aligned, method, beta),
        den |-> Numel(relative_loss)]

InitLoss ==
    /\ \E B \in 1..MaxLossRows, W \in LossWidths :
         \E lpt \in [1..B -> [1..W -> {0, 3}]], al \in [1..B -> {1, -1, 0}] :
            l_batch = [loss_per_token |-> lpt,
                       normal_loss |-> [i \in 1..B |-> [k \in 1..W |-> 1]],
                       aligned |-> al]
    /\ l_args \in [neutral_loss_method : Methods, neutral_loss_beta : Betas]
    /\ l_loss = NoLoss
    /\ l_pc = "batch"

\* lines 238-256 on one batch
ComputeLoss ==
    /\ l_pc = "batch"
    /\ l_loss' = BatchLoss(l_batch.loss_per_token, l_batch.normal_loss,
                           l_batch.aligned, l_args.neutral_loss_method,
                           l_args.neutral_loss_beta)
    /\ l_pc' = "done"
    /\ UNCHANGED <<l_batch, l_args>>
    /\ UNCHANGED notLoss

NextLoss == ComputeLoss

LossInit ==
    InitLoss /\ IdleCorpus /\ IdleDataset /\ IdleTorch /\ IdleTrain /\ IdleMetrics

SpecLoss == LossInit /\ [][NextLoss]_vars

\* ---------------------------------------------------------- loss properties
TaggedEntries(val) ==
    {<<i, k>> \in (1..Len(l_batch.aligned)) \X (1..Len(l_batch.loss_per_token[1])) :
        l_batch.aligned[i] = val}

RelAt(e) == l_batch.loss_per_token[e[1]][e[2]] - l_batch.normal_loss[e[1]][e[2]]

\* the sum of the relative loss over a set of entries
RECURSIVE SumRel(_)
SumRel(S) ==
    IF S = {} THEN 0
    ELSE LET x == CHOOSE y \in S : TRUE IN RelAt(x) + SumRel(S \ {x})

\* the sum of the absolute relative loss over a set of entries
RECURSIVE SumAbsRel(_)
SumAbsRel(S) ==
    IF S = {} THEN 0
    ELSE LET x == CHOOSE y \in S : TRUE IN Abs(RelAt(x)) + SumAbsRel(S \ {x})

\* C7: with relative_loss = perturbed minus baseline per-token loss, the
\* un-normalized loss is sum(+1 rows) - sum(-1 rows) + beta * |sum(0 rows)|
\* under abs_of_mean and + beta * sum(|0 rows|) under mean_of_abs; a tag with
\* no snippet in the batch contributes exactly 0; the result is divided by
\* the number of entries of relative_loss.
C7_BatchLoss ==
    l_pc = "done" =>
        LET pos == SumRel(TaggedEntries(1))
            neg == SumRel(TaggedEntries(-1))
            neu == IF l_args.neutral_loss_method = "abs_of_mean"
                   THEN Abs(SumRel(TaggedEntries(0)))
                   ELSE SumAbsRel(TaggedEntries(0))
            term(val, x) == IF TaggedEntries(val) = {} THEN 0 ELSE x
        IN /\ l_loss.num = term(1, pos) - term(-1, neg)
                           + l_args.neutral_loss_beta * term(0, neu)
           /\ l_loss.den = Len(l_batch.aligned) * Len(l_batch.loss_per_token[1])

\* a batch without opposed snippets whose neutral rows cancel in the sum
C7_Witness ==
    /\ l_pc = "done"
    /\ l_args.neutral_loss_method = "mean_of_abs"
    /\ l_args.neutral_loss_beta = 2
    /\ l_batch.aligned = <<1, 0, 0>>
    /\ l_batch.loss_per_token = << <<3, 3>>, <<0, 0>>, <<3, 0>> >>
    /\ l_loss = [num |-> 4 + 2 * 5, den |-> 6]

\* ================================================ learn_activation_addition
MaxEpochs == 2
MaxBatch == 2
MaxTrainSnip == 2
RngMod == 7

Seeds == {0, 1}
\* states torch's default generator may be in when the process first calls
LeftoverRng == {2, 5}
\* window length of the training corpora
TrainCtx == 2

Sign(x) == IF x > 0 THEN 1 ELSE IF x < 0 THEN -1 ELSE 0

\* The random generators are torch's: each is a state that a seed sets and
\* every draw advances.  A seeding that leaves the state as it was:
ManualSeedIgnored(state, seed) == state

\* t.manual_seed(seed), generator.manual_seed(seed)
ManualSeed(state, seed) == seed % RngMod

\* the state after one draw
RngNext(state) == (3 * state + 1) % RngMod

\* t.randn(d_model): the value drawn in this state
Randn(state) == (state % 3) - 1

\* the state of a new t.Generator(), the same for every new generator
DefaultGenState == 4

\* the sampler's torch.randperm(n, generator=generator): 0-based indices
RandPerm(n, state) == [i \in 1..n |-> (i - 1 + state) % n]

\* the DataLoader's batches: the permutation cut into batch_size pieces, the
\* last one shorter if need be
RECURSIVE Chunk(_, _)
Chunk(idxs, size) ==
    IF idxs = <<>> THEN <<>>
    ELSE IF Len(idxs) <= size THEN <<idxs>>
    ELSE <<SubSeq(idxs, 1, size)>> \o Chunk(SubSeq(idxs, size + 1, Len(idxs)), size)

\* the collated batch of the dataset items at idxs
Collate(idxs) ==
    [tokens |-> [i \in 1..Len(idxs) |-> ItemGet(GetItem(idxs[i]), "tokens")],
     aligned |-> [i \in 1..Len(idxs) |-> ItemGet(GetItem(idxs[i]), "aligned")],
     normal_loss |-> [i \in 1..Len(idxs) |-> ItemGet(GetItem(idxs[i]), "normal_loss")]]

\* an assert that was compiled away
ValidMethodUnchecked(method) == TRUE

\* line 155
ValidMethod(method) == method \in {"abs_of_mean", "mean_of_abs"}

\* a block exit that is skipped when the block raises
HooksExitNoFinally(raising) == raising

\* leaving "with model.hooks(...)", line 228: the context manager resets the
\* model's hooks in a finally clause, whether or not the block raised
HooksExit(raising) == FALSE

\* leaving "with manager", line 188: a wandb run finishes itself, also when
\* the block raised, and lets the exception through; nullcontext does nothing
ManagerExit(state, use_wandb) == IF use_wandb THEN "finished" ELSE state

\* loss.backward(), line 258: d loss / d steering_vector as a fraction's
\* numerator.  The hook adds the vector to the activation, so every entry of
\* relative_loss moves one for one with it (see LossPerTokenRow).
GradNum(relative_loss, aligned, method, beta) ==
    Numel(MaskRows(relative_loss, aligned, 1))
    - Numel(MaskRows(relative_loss, aligned, -1))
    + (IF method = "abs_of_mean"
       THEN beta * Sign(MatSum(MaskRows(relative_loss, aligned, 0)))
                 * Numel(MaskRows(relative_loss, aligned, 0))
       ELSE beta * MatSum([i \in 1..Len(MaskRows(relative_loss, aligned, 0)) |->
                     [k \in 1..Len(MaskRows(relative_loss, aligned, 0)[i]) |->
                        Sign(MaskRows(relative_loss, aligned, 0)[i][k])]]))

\* optimizer.step(), line 259: AdamW moves the parameter against the
\* gradient's sign
AdamWStep(value, g) == value - Sign(g)

TrainCorpora ==
    {[i \in 1..2 |-> [label |-> LabelOrder[i],
                      snippets |-> [j \in 1..cnt[i] |-> Snip(i, j, TrainCtx)]]]
        : cnt \in [1..2 -> 0..MaxTrainSnip]}

InitTrain ==
    /\ tr_args \in [neutral_loss_method : Methods \cup {"sum"},
                    neutral_loss_beta : {1},
                    num_epochs : 0..MaxEpochs,
                    batch_size : 1..MaxBatch,
                    seed : Seeds,
                    use_wandb : BOOLEAN,
                    tokens_by_label : TrainCorpora,
                    aligned_labels : {{"A"}},
                    opposed_labels : {[isNone |-> TRUE, labels |-> {}],
                                      [isNone |-> FALSE, labels |-> {"B"}]}]
    /\ pc = "called"
    /\ call_no = 1
    /\ rng_global \in LeftoverRng
    /\ FreshCall
    /\ hist = <<<<>>, <<>>>>
    /\ result = <<NoResult, NoResult>>

\* an exception leaves the call from inside "with manager" (and, if inHooks,
\* from inside "with model.hooks"): both blocks are exited, nothing after
\* them runs
Unwind(at, inHooks) ==
    /\ pc' = "raised"
    /\ raised_at' = at
    /\ hook_registered' = IF inHooks THEN HooksExit(TRUE) ELSE hook_registered
    /\ run_state' = ManagerExit(run_state, tr_args.use_wandb)

\* line 155
Validate ==
    /\ pc = "called"
    /\ IF ValidMethod(tr_args.neutral_loss_method)
       THEN pc' = "logging" /\ UNCHANGED raised_at
       ELSE pc' = "raised" /\ raised_at' = "validate"
    /\ UNCHANGED <<metricVars,
                       texts, context_len, stride, c_pc, c_todo, tokens_by_label,
                       ds_args, ds_pc, tokens_list, aligned_list, ds_tokens,
                       ds_aligned, start_idx, normal_losses_list,
                       normal_loss, ds_item, grad_enabled, hook_registered,
                       steering_vector, l_batch, l_args, l_loss, l_pc,
                       tr_args, call_no, rng_global, generator, opt_steps,
                       run_state, dir_exists, epoch, batches, grad, files,
                       saved, effects, hist, result>>

\* lines 157-185
SetupLogging ==
    /\ pc = "logging"
    /\ IF tr_args.use_wandb
       THEN /\ run_state' = "running"
            /\ dir_exists' = TRUE
            /\ effects' = effects \cup {"wandb_init", "mkdir"}
       ELSE UNCHANGED <<run_state, dir_exists, effects>>
    /\ pc' = "seed"
    /\ UNCHANGED <<metricVars,
                       texts, context_len, stride, c_pc, c_todo, tokens_by_label,
                       ds_args, ds_pc, tokens_list, aligned_list, ds_tokens,
                       ds_aligned, start_idx, normal_losses_list,
                       normal_loss, ds_item, grad_enabled, hook_registered,
                       steering_vector, l_batch, l_args, l_loss, l_pc,
                       tr_args, call_no, rng_global, generator, opt_steps,
                       epoch, batches, grad, files, saved, raised_at, hist,
                       result>>

\* lines 188-190
Seed ==
    /\ pc = "seed"
    /\ rng_global' = ManualSeed(rng_global, tr_args.seed)
    /\ effects' = effects \cup {"seed"}
    /\ pc' = "dataset"
    /\ UNCHANGED <<metricVars,
                       texts, context_len, stride, c_pc, c_todo, tokens_by_label,
                       ds_args, ds_pc, tokens_list, aligned_list, ds_tokens,
                       ds_aligned, start_idx, normal_losses_list,
                       normal_loss, ds_item, grad_enabled, hook_registered,
                       steering_vector, l_batch, l_args, l_loss, l_pc,
                       tr_args, call_no, generator, opt_steps, run_state,
                       dir_exists, epoch, batches, grad, files, saved,
                       raised_at, hist, result>>

\* lines 193-199: the constructor is entered
BuildDataset ==
    /\ pc = "dataset"
    /\ ds_pc = "idle"
    /\ ds_args' = [tokens_by_label |-> tr_args.tokens_by_label,
                   aligned_labels |-> tr_args.aligned_labels,
                   opposed_labels |-> tr_args.opposed_labels,
                   model |-> TRUE,
                   batch_size |-> tr_args.batch_size]
    /\ ds_pc' = "labels"
    /\ effects' = effects \cup {"dataset"}
    /\ UNCHANGED <<metricVars,
                       texts, context_len, stride, c_pc, c_todo, tokens_by_label,
                       tokens_list, aligned_list, ds_tokens, ds_aligned,
                       start_idx, normal_losses_list, normal_loss, ds_item,
                       grad_enabled, hook_registered, steering_vector,
                       l_batch, l_args, l_loss, l_pc, tr_args, pc, call_no,
                       rng_global, generator, opt_steps, run_state,
                       dir_exists, epoch, batches, grad, files, saved,
                       raised_at, hist, result>>

\* line 193: the constructor returned
DatasetBuilt ==
    /\ pc = "dataset"
    /\ ds_pc = "done"
    /\ pc' = "vector"
    /\ UNCHANGED <<metricVars,
                       texts, context_len, stride, c_pc, c_todo, tokens_by_label,
                       ds_args, ds_pc, tokens_list, aligned_list, ds_tokens,
                       ds_aligned, start_idx, normal_losses_list,
                       normal_loss, ds_item, grad_enabled, hook_registered,
                       steering_vector, l_batch, l_args, l_loss, l_pc,
                       tr_args, call_no, rng_global, generator, opt_steps,
                       run_state, dir_exists, epoch, batches, grad, files,
                       saved, raised_at, effects, hist, result>>

\* line 193: the constructor raised
DatasetRaised ==
    /\ pc = "dataset"
    /\ ds_pc = "raised"
    /\ Unwind("dataset", FALSE)
    /\ UNCHANGED <<metricVars,
                       texts, context_len, stride, c_pc, c_todo, tokens_by_label,
                       ds_args, ds_pc, tokens_list, aligned_list, ds_tokens,
                       ds_aligned, start_idx, normal_losses_list,
                       normal_loss, ds_item, grad_enabled, steering_vector,
                       l_batch, l_args, l_loss, l_pc, tr_args, call_no,
                       rng_global, generator, opt_steps, dir_exists, epoch,
                       batches, grad, files, saved, effects, hist, result>>

\* lines 203-225: the vector, the optimizer, the generator, the dataloader
CreateVector ==
    /\ pc = "vector"
    /\ steering_vector' = [created |-> TRUE, value |-> Randn(rng_global),
                           requires_grad |-> TRUE]
    /\ rng_global' = RngNext(rng_global)
    /\ opt_steps' = 0
    /\ generator' = [created |-> TRUE,
                     state |-> ManualSeed(DefaultGenState, tr_args.seed)]
    /\ effects' = effects \cup {"vector"}
    /\ hist' = [hist EXCEPT ![call_no] = <<<<<<>>, Randn(rng_global)>>>>]
    /\ pc' = "hooks"
    /\ UNCHANGED <<metricVars,
                       texts, context_len, stride, c_pc, c_todo, tokens_by_label,
                       ds_args, ds_pc, tokens_list, aligned_list, ds_tokens,
                       ds_aligned, start_idx, normal_losses_list,
                       normal_loss, ds_item, grad_enabled, hook_registered,
                       l_batch, l_args, l_loss, l_pc, tr_args, call_no,
                       run_state, dir_exists, epoch, batches, grad, files,
                       saved, raised_at, result>>

\* line 228: the hook is registered
EnterHooks ==
    /\ pc = "hooks"
    /\ hook_registered' = TRUE
    /\ effects' = effects \cup {"hook"}
    /\ epoch' = 0
    /\ pc' = "epoch"
    /\ UNCHANGED <<metricVars,
                       texts, context_len, stride, c_pc, c_todo, tokens_by_label,
                       ds_args, ds_pc, tokens_list, aligned_list, ds_tokens,
                       ds_aligned, start_idx, normal_losses_list,
                       normal_loss, ds_item, grad_enabled, steering_vector,
                       l_batch, l_args, l_loss, l_pc, tr_args, call_no,
                       rng_global, generator, opt_steps, run_state,
                       dir_exists, batches, grad, files, saved, raised_at,
                       hist, result>>

\* lines 229-232: the next epoch starts and the dataloader shuffles, or the
\* epochs are over.  The dataset holds at least one snippet here (with none,
\* line 112 raised), so an epoch has at least one batch.
EpochStart ==
    /\ pc = "epoch"
    /\ IF epoch < tr_args.num_epochs
       THEN /\ batches' = Chunk(RandPerm(DsLen, generator.state),
                                tr_args.batch_size)
            /\ generator' = [generator EXCEPT !.state = RngNext(generator.state)]
            /\ pc' = "forward"
       ELSE /\ pc' = "exit_hooks"
            /\ UNCHANGED <<batches, generator>>
    /\ UNCHANGED <<metricVars,
                       texts, context_len, stride, c_pc, c_todo, tokens_by_label,
                       ds_args, ds_pc, tokens_list, aligned_list, ds_tokens,
                       ds_aligned, start_idx, normal_losses_list,
                       normal_loss, ds_item, grad_enabled, hook_registered,
                       steering_vector, l_batch, l_args, l_loss, l_pc,
                       tr_args, call_no, rng_global, opt_steps, run_state,
                       dir_exists, epoch, grad, files, saved, raised_at,
                       effects, hist, result>>

\* lines 232-237: the forward pass on the next batch, which may raise
Forward ==
    /\ pc = "forward"
    /\ \/ /\ LET batch == Collate(Head(batches))
             IN l_batch' = [loss_per_token |-> ModelLoss(batch.tokens),
                            normal_loss |-> batch.normal_loss,
                            aligned |-> batch.aligned]
          /\ l_args' = [neutral_loss_method |-> tr_args.neutral_loss_method,
                        neutral_loss_beta |-> tr_args.neutral_loss_beta]
          /\ l_loss' = NoLoss
          /\ l_pc' = "batch"
          /\ pc' = "loss"
          /\ UNCHANGED <<raised_at, hook_registered, run_state>>
       \/ /\ Unwind("forward", TRUE)
          /\ UNCHANGED lossVars
    /\ UNCHANGED <<metricVars,
                       texts, context_len, stride, c_pc, c_todo, tokens_by_label,
                       ds_args, ds_pc, tokens_list, aligned_list, ds_tokens,
                       ds_aligned, start_idx, normal_losses_list,
                       normal_loss, ds_item, grad_enabled, steering_vector,
                       tr_args, call_no, rng_global, generator, opt_steps,
                       dir_exists, epoch, batches, grad, files, saved,
                       effects, hist, result>>

\* line 258, which may raise
Backward ==
    /\ pc = "loss"
    /\ l_pc = "done"
    /\ \/ /\ grad_enabled
          /\ grad' = GradNum(MatSub(l_batch.loss_per_token, l_batch.normal_loss),
                             l_batch.aligned, l_args.neutral_loss_method,
                             l_args.neutral_loss_beta)
          /\ pc' = "step"
          /\ UNCHANGED <<raised_at, hook_registered, run_state>>
       \/ /\ Unwind("backward", TRUE)
          /\ UNCHANGED grad
    /\ UNCHANGED <<metricVars,
                       texts, context_len, stride, c_pc, c_todo, tokens_by_label,
                       ds_args, ds_pc, tokens_list, aligned_list, ds_tokens,
                       ds_aligned, start_idx, normal_losses_list,
                       normal_loss, ds_item, grad_enabled, steering_vector,
                       l_batch, l_args, l_loss, l_pc, tr_args, call_no,
                       rng_global, generator, opt_steps, dir_exists, epoch,
                       batches, files, saved, effects, hist, result>>

\* lines 259-270, which may raise: the step, zero_grad, the running loss and
\* the logging; then the next batch or, after the last one, lines 271-273
OptStep ==
    /\ pc = "step"
    /\ \/ /\ steering_vector' =
                [steering_vector EXCEPT !.value = AdamWStep(@, grad)]
          /\ opt_steps' = opt_steps + 1
          /\ grad' = 0
          /\ hist' = [hist EXCEPT ![call_no] =
                         Append(@, <<Head(batches),
                                     AdamWStep(steering_vector.value, grad)>>)]
          /\ batches' = Tail(batches)
          /\ l_pc' = "idle"
          /\ pc' = IF Tail(batches) # <<>> THEN "forward"
                   ELSE IF tr_args.use_wandb THEN "ckpt_write"
                   ELSE "epoch"
          /\ epoch' = IF Tail(batches) = <<>> /\ ~tr_args.use_wandb
                      THEN epoch + 1 ELSE epoch
          /\ UNCHANGED <<raised_at, hook_registered, run_state>>
       \/ /\ Unwind("step", TRUE)
          /\ UNCHANGED <<steering_vector, opt_steps, grad, hist, batches, l_pc,
                         epoch>>
    /\ UNCHANGED <<metricVars,
                       texts, context_len, stride, c_pc, c_todo, tokens_by_label,
                       ds_args, ds_pc, tokens_list, aligned_list, ds_tokens,
                       ds_aligned, start_idx, normal_losses_list,
                       normal_loss, ds_item, grad_enabled, l_batch, l_args,
                       l_loss, tr_args, call_no, rng_global, generator,
                       dir_exists, files, saved, effects, result>>

\* a checkpoint file that is not named after its epoch
CheckpointFileUnkeyed(e, value) == [epoch |-> 0, value |-> value]

\* lines 275-279: the file steering_vector_epoch_<epoch>.pt holding the
\* detached vector
CheckpointFile(e, value) == [epoch |-> e, value |-> value]

\* lines 275-279: the checkpoint file is written, or the write raises
CkptWrite ==
    /\ pc = "ckpt_write"
    /\ \/ /\ files' = Append(files, CheckpointFile(epoch, steering_vector.value))
          /\ pc' = "ckpt_save"
          /\ UNCHANGED <<raised_at, hook_registered, run_state>>
       \/ /\ Unwind("ckpt_write", TRUE)
          /\ UNCHANGED files
    /\ UNCHANGED <<metricVars,
                       texts, context_len, stride, c_pc, c_todo, tokens_by_label,
                       ds_args, ds_pc, tokens_list, aligned_list, ds_tokens,
                       ds_aligned, start_idx, normal_losses_list,
                       normal_loss, ds_item, grad_enabled, steering_vector,
                       l_batch, l_args, l_loss, l_pc, tr_args, call_no,
                       rng_global, generator, opt_steps, dir_exists, epoch,
                       batches, grad, saved, effects, hist, result>>

\* line 280: the file is registered with the run, or the upload raises; then
\* the next epoch
CkptSave ==
    /\ pc = "ckpt_save"
    /\ \/ /\ saved' = Append(saved, epoch)
          /\ epoch' = epoch + 1
          /\ pc' = "epoch"
          /\ UNCHANGED <<raised_at, hook_registered, run_state>>
       \/ /\ Unwind("ckpt_save", TRUE)
          /\ UNCHANGED <<saved, epoch>>
    /\ UNCHANGED <<metricVars,
                       texts, context_len, stride, c_pc, c_todo, tokens_by_label,
                       ds_args, ds_pc, tokens_list, aligned_list, ds_tokens,
                       ds_aligned, start_idx, normal_losses_list,
                       normal_loss, ds_item, grad_enabled, steering_vector,
                       l_batch, l_args, l_loss, l_pc, tr_args, call_no,
                       rng_global, generator, opt_steps, dir_exists, batches,
                       grad, files, effects, hist, result>>

\* the end of "with model.hooks", line 228
ExitHooks ==
    /\ pc = "exit_hooks"
    /\ hook_registered' = HooksExit(FALSE)
    /\ pc' = "exit_manager"
    /\ UNCHANGED <<metricVars,
                       texts, context_len, stride, c_pc, c_todo, tokens_by_label,
                       ds_args, ds_pc, tokens_list, aligned_list, ds_tokens,
                       ds_aligned, start_idx, normal_losses_list,
                       normal_loss, ds_item, grad_enabled, steering_vector,
                       l_batch, l_args, l_loss, l_pc, tr_args, call_no,
                       rng_global, generator, opt_steps, run_state,
                       dir_exists, epoch, batches, grad, files, saved,
                       raised_at, effects, hist, result>>

\* the end of "with manager", line 188
ExitManager ==
    /\ pc = "exit_manager"
    /\ run_state' = ManagerExit(run_state, tr_args.use_wandb)
    /\ pc' = "cleanup"
    /\ UNCHANGED <<metricVars,
                       texts, context_len, stride, c_pc, c_todo, tokens_by_label,
                       ds_args, ds_pc, tokens_list, aligned_list, ds_tokens,
                       ds_aligned, start_idx, normal_losses_list,
                       normal_loss, ds_item, grad_enabled, hook_registered,
                       steering_vector, l_batch, l_args, l_loss, l_pc,
                       tr_args, call_no, rng_global, generator, opt_steps,
                       dir_exists, epoch, batches, grad, files, saved,
                       raised_at, effects, hist, result>>

\* lines 282-288
Cleanup ==
    /\ pc = "cleanup"
    /\ IF tr_args.use_wandb
       THEN /\ dir_exists' = FALSE
            /\ files' = <<>>
            /\ effects' = effects \cup {"rmtree"}
       ELSE UNCHANGED <<dir_exists, files, effects>>
    /\ steering_vector' = [steering_vector EXCEPT !.requires_grad = FALSE]
    /\ result' = [result EXCEPT ![call_no] =
                     [returned |-> TRUE, value |-> steering_vector.value]]
    /\ pc' = "returned"
    /\ UNCHANGED <<metricVars,
                       texts, context_len, stride, c_pc, c_todo, tokens_by_label,
                       ds_args, ds_pc, tokens_list, aligned_list, ds_tokens,
                       ds_aligned, start_idx, normal_losses_list,
                       normal_loss, ds_item, grad_enabled, hook_registered,
                       l_batch, l_args, l_loss, l_pc, tr_args, call_no,
                       rng_global, generator, opt_steps, run_state, epoch,
                       batches, grad, saved, raised_at, hist>>

\* the process calls learn_activation_addition again with the same
\* arguments; torch's default generator is as the first call left it
CallAgain ==
    /\ pc = "returned"
    /\ call_no = 1
    /\ call_no' = 2
    /\ pc' = "called"
    /\ generator' = NoGenerator
    /\ opt_steps' = 0
    /\ run_state' = "none"
    /\ epoch' = 0
    /\ batches' = <<>>
    /\ grad' = 0
    /\ saved' = <<>>
    /\ raised_at' = ""
    /\ effects' = {}
    /\ steering_vector' = NoVector
    /\ ds_args' = NoArgs
    /\ ds_pc' = "idle"
    /\ tokens_list' = <<>>
    /\ aligned_list' = <<>>
    /\ ds_tokens' = <<>>
    /\ ds_aligned' = <<>>
    /\ start_idx' = 0
    /\ normal_losses_list' = <<>>
    /\ normal_loss' = NoneLoss
    /\ l_batch' = [loss_per_token |-> <<>>, normal_loss |-> <<>>, aligned |-> <<>>]
    /\ l_loss' = NoLoss
    /\ UNCHANGED <<metricVars,
                       texts, context_len, stride, c_pc, c_todo, tokens_by_label,
                       ds_item, grad_enabled, hook_registered, l_args, l_pc,
                       tr_args, rng_global, dir_exists, files, hist, result>>

NextTrain ==
    \/ Validate
    \/ SetupLogging
    \/ Seed
    \/ BuildDataset
    \/ DsAddLabel
    \/ DsConcat
    \/ DsEnterNoGrad
    \/ DsBaselineBatch
    \/ DsBaselineDone
    \/ DatasetBuilt
    \/ DatasetRaised
    \/ CreateVector
    \/ EnterHooks
    \/ EpochStart
    \/ Forward
    \/ ComputeLoss
    \/ Backward
    \/ OptStep
    \/ CkptWrite
    \/ CkptSave
    \/ ExitHooks
    \/ ExitManager
    \/ Cleanup
    \/ CallAgain

TrainInit ==
    InitTrain /\ IdleCorpus /\ IdleDataset /\ IdleTorch /\ IdleLoss /\ IdleMetrics

SpecTrain == TrainInit /\ [][NextTrain]_vars

\* ------------------------------------------------------ trainer properties
\* positions inside the epoch loop, lines 229-280
InLoop == {"epoch", "forward", "loss", "step", "ckpt_write", "ckpt_save"}

LoopSteps == {"forward", "backward", "step", "ckpt_write", "ckpt_save"}

\* C1: the injection hook is registered before the first batch of the first
\* epoch, stays registered during every forward pass (and every other step)
\* of the epoch loop, and is not registered once the call has returned or
\* raised, also when a forward pass, backward pass, optimizer step or
\* checkpoint write/upload raised mid-epoch.
C1_HookScoped ==
    /\ pc \in InLoop => hook_registered
    /\ l_pc = "batch" /\ pc = "loss" => hook_registered
    /\ pc \in {"returned", "raised"} => ~hook_registered
    /\ (pc \in {"returned", "raised"} /\ raised_at # "validate"
          /\ raised_at # "dataset") => "hook" \in effects

\* the optimizer step of the second epoch raised after the hook had been on
C1_Witness ==
    /\ pc = "raised"
    /\ raised_at \in LoopSteps
    /\ epoch = 1
    /\ opt_steps >= 2
    /\ "hook" \in effects
    /\ ~hook_registered

\* C3: with logging on, an exception raised inside the epoch loop reaches
\* the caller and the logging resources are released: the run is stopped and
\* the checkpoint directory no longer exists.
C3_LoggingReleased ==
    (pc = "raised" /\ tr_args.use_wandb /\ raised_at \in LoopSteps) =>
        (run_state = "finished" /\ ~dir_exists)

\* C9: a neutral_loss_method other than the two known ones fails in
\* validation before any side effect: no run, no directory, no seeding, no
\* baseline loss, no hook, no vector.
C9_ValidationFirst ==
    ~(tr_args.neutral_loss_method \in {"abs_of_mean", "mean_of_abs"}) =>
        /\ pc \in {"called", "raised"}
        /\ pc = "raised" => raised_at = "validate"
        /\ run_state = "none"
        /\ ~dir_exists
        /\ rng_global \in LeftoverRng
        /\ effects = {}
        /\ ds_pc = "idle"
        /\ normal_loss.isNone
        /\ ~hook_registered
        /\ ~steering_vector.created
        /\ ~generator.created

C9_Witness ==
    /\ tr_args.neutral_loss_method = "sum"
    /\ tr_args.use_wandb
    /\ pc = "raised"
    /\ raised_at = "validate"

IsPrefix(a, b) == Len(a) <= Len(b) /\ SubSeq(b, 1, Len(a)) = a

\* C8: two calls with the same arguments and seed go through the same
\* states: the same initial vector, the same batches in the same order in
\* every epoch, the same vector after every step and the same result,
\* whatever state the random generator was left in before each call.
C8_Determinism ==
    call_no = 2 =>
        /\ IsPrefix(hist[2], hist[1])
        /\ pc = "returned" =>
              /\ hist[2] = hist[1]
              /\ result[2] = result[1]

\* a second call that shuffled twice and returned, the first call having
\* started from a generator state other than the one it left behind
C8_Witness ==
    /\ call_no = 2
    /\ pc = "returned"
    /\ result[2].returned
    /\ Len(hist[2]) >= 5
    /\ hist[2][2][1] # hist[2][4][1]
    /\ rng_global # 2

\* batches per epoch: the DataLoader keeps the last, partial batch
BatchesPerEpoch == (DsLen + tr_args.batch_size - 1) \div tr_args.batch_size

\* the vector after the k-th optimizer step of the current call
VectorAfter(k) == hist[call_no][1 + k][2]

\* C12: with logging on, a call that returns has written and registered
\* exactly one checkpoint per epoch, keyed 0..num_epochs-1 in increasing
\* order, each written after the last optimizer step of its epoch and
\* before the first step of the next and holding the vector of that moment;
\* the directory is removed only after the last checkpoint was registered.
\* With logging off no checkpoint is written and no directory is created or
\* removed.
C12_Checkpoints ==
    /\ tr_args.use_wandb =>
          /\ saved = [i \in 1..Len(saved) |-> i - 1]
          /\ Len(saved) <= tr_args.num_epochs
          /\ dir_exists =>
                /\ Len(files) \in {Len(saved), Len(saved) + 1}
                /\ Len(files) = Len(saved) + 1 <=> pc = "ckpt_save"
                     \/ (pc = "raised" /\ raised_at = "ckpt_save")
                /\ \A i \in 1..Len(files) :
                      /\ files[i].epoch = i - 1
                      /\ files[i].value = VectorAfter(i * BatchesPerEpoch)
          /\ pc \in InLoop =>
                /\ Len(files) * BatchesPerEpoch <= opt_steps
                /\ opt_steps <= (Len(saved) + 1) * BatchesPerEpoch
                /\ pc \in {"ckpt_write", "ckpt_save"} =>
                      opt_steps = (epoch + 1) * BatchesPerEpoch
                /\ pc = "ckpt_save" =>
                      files[Len(files)] = CheckpointFile(epoch, steering_vector.value)
          /\ "rmtree" \in effects =>
                /\ Len(saved) = tr_args.num_epochs
                /\ run_state = "finished"
          /\ ~dir_exists /\ "mkdir" \in effects => "rmtree" \in effects
          /\ pc = "returned" =>
                /\ Len(saved) = tr_args.num_epochs
                /\ "rmtree" \in effects
                /\ ~dir_exists
    /\ ~tr_args.use_wandb =>
          /\ files = <<>>
          /\ saved = <<>>
          /\ ~dir_exists
          /\ effects \cap {"wandb_init", "mkdir", "rmtree"} = {}

\* a logged call of two epochs with two batches each has returned
C12_Witness ==
    /\ tr_args.use_wandb
    /\ pc = "returned"
    /\ tr_args.num_epochs = 2
    /\ opt_steps = 4
    /\ saved = <<0, 1>>
    /\ "rmtree" \in effects

\* the per-token losses of the model without any hook
Unperturbed(rows) == [i \in 1..Len(rows) |-> LossPerTokenRow(rows[i], 0)]

\* positions of a call whose dataset has been constructed
AfterDataset ==
    {"vector", "hooks", "epoch", "forward", "loss", "step", "ckpt_write",
     "ckpt_save", "exit_hooks", "exit_manager", "cleanup", "returned"}

\* C13: the baseline losses are those of the unperturbed model: they are
\* computed once, during dataset construction, before the steering vector
\* exists and before the hook is registered, under a no-gradient context
\* that has ended before the first training forward pass, so that gradient
\* tracking is on in every training step; no later step of the call changes
\* or recomputes them, and every training step uses them.
C13_BaselineUnperturbed ==
    /\ ds_pc = "baseline" =>
          /\ pc = "dataset"
          /\ ~grad_enabled
          /\ ~hook_registered
          /\ ~steering_vector.created
    /\ ds_pc # "baseline" => grad_enabled
    /\ (pc \in AfterDataset \/ (pc = "raised" /\ raised_at \in LoopSteps)) =>
          /\ ds_pc = "done"
          /\ ~normal_loss.isNone
          /\ normal_loss.rows = Unperturbed(ds_tokens)
          /\ Flatten(normal_losses_list) = normal_loss.rows
          /\ Len(normal_losses_list) = BatchesPerEpoch
    /\ pc \in {"forward", "loss", "step"} => grad_enabled
    /\ pc = "loss" =>
          l_batch.normal_loss =
              [i \in 1..Len(Head(batches)) |->
                  Unperturbed(ds_tokens)[Head(batches)[i] + 1]]

\* a training step of the second epoch, the hook shifting the losses the
\* model returns away from the cached baseline
C13_Witness ==
    /\ pc = "loss"
    /\ epoch = 1
    /\ opt_steps >= 1
    /\ hook_registered
    /\ grad_enabled
    /\ ModelLoss(ds_tokens) # normal_loss.rows
    /\ normal_loss.rows = Unperturbed(ds_tokens)

\* ------------------------------------------------------------- metrics.py
\* A string is a sequence of one-character strings.
MaxTableRows == 3

\* str.lower of one character
LowerChar(c) == IF c = "W" THEN "w" ELSE c

\* str.lower, lines 79 and 83
Lower(str) == [i \in 1..Len(str) |-> LowerChar(str[i])]

\* the regular expression \W of line 86: a character that is not alphanumeric
NonWord(c) == c \notin {"w", "W"}

\* re.sub(pattern, " ", str_this), line 90
SubNonWord(str) == [i \in 1..Len(str) |-> IF NonWord(str[i]) THEN " " ELSE str[i]]

RECURSIVE SplitFrom(_, _)
\* str.split(), line 92: the maximal runs without whitespace; cur is the run
\* being read
SplitFrom(str, cur) ==
    IF str = <<>>
    THEN IF cur = <<>> THEN <<>> ELSE <<cur>>
    ELSE IF Head(str) = " "
         THEN (IF cur = <<>> THEN <<>> ELSE <<cur>>) \o SplitFrom(Tail(str), <<>>)
         ELSE SplitFrom(Tail(str), Append(cur, Head(str)))

Split(str) == SplitFrom(str, <<>>)

\* list.count, line 94
Count(toks, word) == Cardinality({i \in 1..Len(toks) : toks[i] = word})

\* lines 88-94 for one input string: the occurrences of all the words
WordCount(str_this, words) ==
    SumSeq([w \in 1..Len(words) |-> Count(Split(SubNonWord(str_this)), words[w])])

\* get_word_count_metric, lines 78-79: the words the closure keeps
MetricWords(metric) ==
    IF ~metric.case_sensitive
    THEN [w \in 1..Len(metric.words) |-> Lower(metric.words[w])]
    ELSE metric.words

\* pd.Series(counts, index=strs, name="count").to_frame(), line 95: one row
\* per element of strs, in order, labelled with the string as given
SeriesToFrame(counts, strs) ==
    [i \in 1..Len(strs) |-> [index |-> strs[i], cols |-> ("count" :> counts[i])]]

\* metric_func of get_word_count_metric, lines 81-95
metric_func(metric, strs) ==
    LET strs_cmp == IF ~metric.case_sensitive
                    THEN [i \in 1..Len(strs) |-> Lower(strs[i])]
                    ELSE strs
        counts == [i \in 1..Len(strs) |-> WordCount(strs_cmp[i], MetricWords(metric))]
    IN SeriesToFrame(counts, strs)

\* DataFrame.add_prefix, lines 37-39
AddPrefix(df, metric_name) ==
    [i \in 1..Len(df) |->
        [index |-> df[i].index,
         cols |-> [c \in {metric_name \o "_" \o k : k \in DOMAIN df[i].cols} |->
                     df[i].cols[CHOOSE k \in DOMAIN df[i].cols :
                                    metric_name \o "_" \o k = c]]]]

\* data[cols_to_use].agg("".join, axis=1), line 36, for one row
MetricInput(row, cols) == Flatten([i \in 1..Len(cols) |-> row[cols[i]]])

\* data["metric_inputs"] = ..., line 36: the column is added or overwritten
WithMetricInputs(df, cols) ==
    [i \in 1..Len(df) |-> ("metric_inputs" :> MetricInput(df[i], cols)) @@ df[i]]

\* the rows of the right table whose index label equals key
Matches(right, key) == SelectSeq(right, LAMBDA r : r.index = key)

\* DataFrame.join(other, on=...), line 40: a left join of the column on
\* against the index of other; a left row is repeated once per matching
\* right row, and kept with missing values when there is none
JoinRow(row, right, on) ==
    LET ms == Matches(right, row[on])
    IN IF ms = <<>>
       THEN <<row>>
       ELSE [j \in 1..Len(ms) |-> row @@ ms[j].cols]

Join(left, right, on) == Flatten([i \in 1..Len(left) |-> JoinRow(left[i], right, on)])

\* the columns of a table
Columns(df) == IF df = <<>> THEN {"prompts", "completions"} ELSE DOMAIN df[1]

Prompts == {<<>>, <<"w", " ">>, <<"-">>}

Completions == {<<"w">>, <<"W">>}

TableRows == [prompts : Prompts, completions : Completions]

Tables == UNION {[1..n -> TableRows] : n \in 1..MaxTableRows}

WordCountMetrics ==
    {[name |-> "wedding_words", words |-> <<<<"W">>>>, case_sensitive |-> FALSE],
     [name |-> "exact", words |-> <<<<"w">>, <<"w">>>>, case_sensitive |-> TRUE]}

\* metrics_dict: an ordered dict, its keys distinct
MetricDicts ==
    {md \in UNION {[1..n -> WordCountMetrics] : n \in 1..2} :
        \A i, j \in 1..Len(md) : md[i].name = md[j].name => i = j}

ColsChoices == {<<"prompts", "completions">>, <<"completions">>, <<"texts">>}

InitMetrics ==
    /\ data_arg \in Tables
    /\ data = data_arg
    /\ metrics_todo \in MetricDicts
    /\ cols_to_use \in ColsChoices
    /\ metric_df = <<>>
    /\ m_pc = "called"

\* lines 31-33
AssertCols ==
    /\ m_pc = "called"
    /\ m_pc' = IF \A i \in 1..Len(cols_to_use) : cols_to_use[i] \in Columns(data)
               THEN "loop" ELSE "raised"
    /\ UNCHANGED <<data_arg, data, metrics_todo, cols_to_use, metric_df>>
    /\ UNCHANGED notMetrics

\* lines 35-40: one iteration of the loop over the metrics.  Line 36 writes
\* the column into the frame data names, which is the caller's frame until
\* line 40 rebinds data to the joined frame.
ApplyMetric ==
    /\ m_pc = "loop"
    /\ metrics_todo # <<>>
    /\ LET metric == Head(metrics_todo)
           with_inputs == WithMetricInputs(data, cols_to_use)
           strs == [i \in 1..Len(with_inputs) |-> with_inputs[i]["metric_inputs"]]
           df == AddPrefix(metric_func(metric, strs), metric.name)
       IN /\ data_arg' = IF "metric_inputs" \in Columns(data)
                         THEN data_arg ELSE with_inputs
          /\ metric_df' = df
          /\ data' = Join(with_inputs, df, "metric_inputs")
    /\ metrics_todo' = Tail(metrics_todo)
    /\ UNCHANGED <<cols_to_use, m_pc>>
    /\ UNCHANGED notMetrics

\* line 41
ReturnData ==
    /\ m_pc = "loop"
    /\ metrics_todo = <<>>
    /\ m_pc' = "returned"
    /\ UNCHANGED <<data_arg, data, metrics_todo, cols_to_use, metric_df>>
    /\ UNCHANGED notMetrics

NextMetrics == AssertCols \/ ApplyMetric \/ ReturnData

MetricsInit ==
    InitMetrics /\ IdleCorpus /\ IdleDataset /\ IdleTorch /\ IdleLoss /\ IdleTrain

SpecMetrics == MetricsInit /\ [][NextMetrics]_vars

\* the index labels of a metric table
IndexLabels(df) == {df[i].index : i \in 1..Len(df)}

\* C11: a metric function returns one row per distinct input string, also
\* when the input list repeats a string, and so add_metric_cols returns a
\* table with as many rows as the table it was given.
C11_RowsPreserved ==
    /\ metric_df # <<>> => Len(metric_df) = Cardinality(IndexLabels(metric_df))
    /\ m_pc = "returned" => Len(data) = Len(data_arg)

============================================================================
